---------------------------- MODULE Spec2Model ----------------------------
(***************************************************************************)
(* A model of src/app.py: the background news aggregation of DailyDash.    *)
(* NewsFetcher runs a periodic thread (update_loop) and on-demand threads  *)
(* (refresh_now); both execute fetch_all_sources, which reads the source   *)
(* registry, fetches and adapts every feed, sorts the result and swaps it  *)
(* into the cache under a lock.  Request handlers read the cache through   *)
(* get_cached_articles and change the registry through manage_sources.     *)
(*                                                                         *)
(* Text that the code slices, lower-cases or searches is a sequence of     *)
(* one-character strings; an optional field of a feed entry is <<>> when   *)
(* absent (or None) and <<v>> when present with value v.                   *)
(***************************************************************************)
EXTENDS Integers, Sequences, FiniteSets, TLC

(***************************************************************************)
(* Bounds of the model.                                                    *)
(***************************************************************************)
MaxSources == 2        \* source ids 1..MaxSources can ever exist in the registry
MaxCycles == 2         \* cycles the periodic loop starts
MaxReaders == 1        \* get_cached_articles calls
TicksPerSleep == 1     \* clock steps that make up one sleep interval
MaxEntries == 2        \* entries of a feed drawn from the pool of raw entries

(***************************************************************************)
(* Program constants.                                                      *)
(***************************************************************************)
SleepInterval == 300   \* time.sleep(300)
SummaryLimit == 200    \* entry.get('summary', ...)[:200]

PlaceholderImage == "https://via.placeholder.com/300?text=News"

VARIABLES
    registry,      \* rows of the sources table, in rowid order (source ids)
    nextSourceId,  \* AUTOINCREMENT counter of the sources table
    articles,      \* NewsFetcher.articles: the cached list object
    lock,          \* NewsFetcher.lock: its holder, or Free
    pc,            \* position of each cycle thread
    cycleNo,       \* number of fetch_all_sources calls each thread has started
    sources,       \* fetch_all_sources: the rows read from the registry
    idx,           \* fetch_all_sources: index of the next source of the for loop
    new_articles,  \* fetch_all_sources: the list object being built
    failed,        \* sources whose fetch or processing raised in the current cycle
    overlap,       \* history: whether a refresh cycle ran while a periodic cycle ran
    remaining,     \* seconds left of the periodic loop's time.sleep
    rpc,           \* position of each get_cached_articles caller
    snapshot,      \* the list object each caller got back
    lastPublished, \* history: the contents of the list published last
    outcome,       \* history: how each thread's latest finished cycle ended
    feeds,         \* the entries each source's feed url currently serves
    request,       \* get_news: the query arguments and session of each request
    response       \* get_news: the list each request was answered with

vars == <<registry, nextSourceId, articles, lock, pc, cycleNo, sources, idx,
          new_articles, failed, overlap, remaining, rpc, snapshot,
          lastPublished, outcome, feeds, request, response>>

\* The feeds served to the fetcher and the traffic of get_news.
outside == <<feeds, request, response>>

(***************************************************************************)
(* Threads.  Cycle thread 0 is the periodic loop; thread i > 0 is the      *)
(* thread started by the i-th refresh_now.                                 *)
(***************************************************************************)
LoopThread == 0
RefreshThreads == 1 .. (MaxSources - 1)
Cycles == {LoopThread} \cup RefreshThreads
Readers == 1 .. MaxReaders
AllReaders == 1 .. (MaxReaders + 1)
SourceIds == 1 .. MaxSources

Free == [kind |-> "none", id |-> 0]
CycleHolder(c) == [kind |-> "cycle", id |-> c]
ReaderHolder(r) == [kind |-> "reader", id |-> r]

(***************************************************************************)
(* Text helpers.                                                           *)
(***************************************************************************)
Take(s, n) == SubSeq(s, 1, IF Len(s) < n THEN Len(s) ELSE n)

StartsWith(s, p) == Len(s) >= Len(p) /\ SubSeq(s, 1, Len(p)) = p

Ellipsis == <<".", ".", ".">>

ImagePrefix == <<"i", "m", "a", "g", "e", "/">>

NoTitle == <<"N", "o", " ", "T", "i", "t", "l", "e">>

NoSummary == <<"N", "o", " ", "s", "u", "m", "m", "a", "r", "y", " ",
               "a", "v", "a", "i", "l", "a", "b", "l", "e", ".">>

(***************************************************************************)
(* Optional fields: dict.get(key, default) and hasattr-and-truthy.         *)
(***************************************************************************)
Absent == << >>
Some(v) == <<v>>
Has(f) == f # << >>
GetOr(f, default) == IF Has(f) THEN f[1] ELSE default

(***************************************************************************)
(* time.mktime: a parsed time (whole days and seconds of the day) to       *)
(* seconds since the epoch.                                                *)
(***************************************************************************)
Mktime(t) == t.tm_days * 86400 + t.tm_secs

(***************************************************************************)
(* RSSAdapter.adapt.  The image comes from media_content, else from        *)
(* media_thumbnail, else from the first link whose type starts with        *)
(* "image/"; indexing an empty media list, reading a missing 'url', and    *)
(* reading a missing type or href attribute of a link raise.               *)
(***************************************************************************)
RECURSIVE LinkScan(_)
LinkScan(links) ==
    IF links = << >> THEN [raises |-> FALSE, image |-> PlaceholderImage]
    ELSE LET link == Head(links) IN
         IF ~Has(link.type) THEN [raises |-> TRUE, image |-> PlaceholderImage]
         ELSE IF StartsWith(link.type[1], ImagePrefix)
              THEN IF Has(link.href)
                   THEN [raises |-> FALSE, image |-> link.href[1]]
                   ELSE [raises |-> TRUE, image |-> PlaceholderImage]
              ELSE LinkScan(Tail(links))

FirstUrl(media) ==
    IF media = << >> \/ ~Has(media[1].url)
    THEN [raises |-> TRUE, image |-> PlaceholderImage]
    ELSE [raises |-> FALSE, image |-> media[1].url[1]]

AdaptImage(entry) ==
    IF Has(entry.media_content) THEN FirstUrl(entry.media_content[1])
    ELSE IF Has(entry.media_thumbnail) THEN FirstUrl(entry.media_thumbnail[1])
    ELSE IF Has(entry.links) THEN LinkScan(entry.links[1])
    ELSE [raises |-> FALSE, image |-> PlaceholderImage]

AdaptTimestamp(entry) ==
    IF Has(entry.published_parsed) THEN Mktime(entry.published_parsed[1])
    ELSE IF Has(entry.updated_parsed) THEN Mktime(entry.updated_parsed[1])
    ELSE 0

AdaptRaises(entry) == AdaptImage(entry).raises

AdaptSummaryIfLonger(entry) ==
    LET s == GetOr(entry.summary, NoSummary) IN
    IF Len(s) > SummaryLimit THEN Take(s, SummaryLimit) \o Ellipsis ELSE s

AdaptSummary(entry) == Take(GetOr(entry.summary, NoSummary), SummaryLimit) \o Ellipsis

Adapt(entry, source_name, source_category) ==
    [title     |-> GetOr(entry.title, NoTitle),
     summary   |-> AdaptSummary(entry),
     link      |-> GetOr(entry.link, "#"),
     date      |-> GetOr(entry.published, ""),
     timestamp |-> AdaptTimestamp(entry),
     source    |-> source_name,
     category  |-> source_category,
     image     |-> AdaptImage(entry).image]


(***************************************************************************)
(* The sources table.  Rows 1..3 are the defaults of init_db.              *)
(***************************************************************************)
Politics == <<"P", "o", "l", "i", "t", "i", "c", "s">>
Technology == <<"T", "e", "c", "h", "n", "o", "l", "o", "g", "y">>
Sports == <<"S", "p", "o", "r", "t", "s">>

SourceRow(s) ==
    CASE s = 1 -> [id |-> 1, name |-> "NYT World", category |-> Politics,
                   url |-> "https://rss.nytimes.com/services/xml/rss/nyt/World.xml"]
      [] s = 2 -> [id |-> 2, name |-> "BBC Tech", category |-> Technology,
                   url |-> "http://feeds.bbci.co.uk/news/technology/rss.xml"]
      [] OTHER -> [id |-> s, name |-> "ESPN Top", category |-> Sports,
                   url |-> "https://www.espn.com/espn/rss/news"]

(***************************************************************************)
(* What feedparser.parse can return for a source: the feed is an input of  *)
(* the program.  A source's url serves a feed (Feed(s) unless stated       *)
(* otherwise); a fetch either raises, or returns the feed, or returns it   *)
(* with one entry carrying a media_content item that has no url.           *)
(***************************************************************************)
BlankEntry ==
    [title |-> Absent, summary |-> Absent, link |-> Absent, published |-> Absent,
     published_parsed |-> Absent, updated_parsed |-> Absent,
     media_content |-> Absent, media_thumbnail |-> Absent, links |-> Absent]

Time(secs) == [tm_days |-> 0, tm_secs |-> secs]

Feed(s) ==
    CASE s = 1 ->
           << [BlankEntry EXCEPT !.title = Some(<<"A", "I">>),
                                 !.summary = Some(<<"a", "i">>),
                                 !.link = Some("https://nyt/1"),
                                 !.published = Some("Mon"),
                                 !.published_parsed = Some(Time(20)),
                                 !.updated_parsed = Some(Time(40))],
              [BlankEntry EXCEPT !.links =
                   Some(<< [type |-> Some(<<"t", "e", "x", "t", "/", "x">>),
                            href |-> Some("https://nyt/2")],
                           [type |-> Some(ImagePrefix \o <<"p", "n", "g">>),
                            href |-> Some("https://nyt/2.png")] >>)] >>
      [] s = 2 ->
           << [BlankEntry EXCEPT !.title = Some(<<"G", "o">>),
                                 !.updated_parsed = Some(Time(20)),
                                 !.media_content =
                                     Some(<< [url |-> Some("https://bbc/1.jpg")] >>)] >>
      [] OTHER ->
           << [BlankEntry EXCEPT !.published_parsed = Some(Time(10 + 10 * s)),
                                 !.media_thumbnail =
                                     Some(<< [url |-> Some("https://espn/1.jpg")] >>)] >>

(***************************************************************************)
(* Raw entries as feedparser may hand them over: summaries shorter than,   *)
(* as long as and longer than the limit; parsed times present, absent,     *)
(* at the epoch and before it; media and link items with and without       *)
(* their url, type and href.                                               *)
(***************************************************************************)
Text(n) == [i \in 1 .. n |-> <<"a", "b", "c">>[(i % 3) + 1]]

BeforeEpoch == [tm_days |-> -1, tm_secs |-> 86399]

EntryPool ==
    { BlankEntry,
      [BlankEntry EXCEPT !.title = Some(<<"A", "I">>), !.summary = Some(Text(0)),
                         !.link = Some("https://nyt/1"), !.published = Some("Mon"),
                         !.published_parsed = Some(Time(20))],
      [BlankEntry EXCEPT !.summary = Some(Text(2)), !.updated_parsed = Some(Time(40))],
      [BlankEntry EXCEPT !.summary = Some(Text(SummaryLimit - 1)),
                         !.published_parsed = Some(Time(30)),
                         !.updated_parsed = Some(Time(10))],
      [BlankEntry EXCEPT !.summary = Some(Text(SummaryLimit)),
                         !.published_parsed = Some(BeforeEpoch)],
      [BlankEntry EXCEPT !.summary = Some(Text(SummaryLimit + 1)),
                         !.published_parsed = Some(Time(0))],
      [BlankEntry EXCEPT !.summary = Some(Text(SummaryLimit + 50)),
                         !.media_content = Some(<< [url |-> Some("https://bbc/1.jpg")] >>)],
      [BlankEntry EXCEPT !.media_content = Some(<< [url |-> Absent] >>)],
      [BlankEntry EXCEPT !.media_thumbnail = Some(<< >>)],
      [BlankEntry EXCEPT !.links =
           Some(<< [type |-> Absent, href |-> Some("https://nyt/2")] >>)],
      [BlankEntry EXCEPT !.links =
           Some(<< [type |-> Some(ImagePrefix \o <<"p", "n", "g">>), href |-> Absent] >>)],
      [BlankEntry EXCEPT !.links =
           Some(<< [type |-> Some(<<"t", "e", "x", "t", "/", "x">>), href |-> Absent],
                   [type |-> Some(ImagePrefix \o <<"p", "n", "g">>),
                    href |-> Some("https://nyt/2.png")] >>)] }

FeedPool == UNION {[1 .. n -> EntryPool] : n \in 1 .. MaxEntries}

CorruptAt(feed, k) ==
    [feed EXCEPT ![k].media_content = Some(<< [url |-> Absent] >>)]

FeedResults(s) ==
    {[raises |-> TRUE, entries |-> << >>], [raises |-> FALSE, entries |-> feeds[s]]}
    \cup {[raises |-> FALSE, entries |-> CorruptAt(feeds[s], k)] : k \in 1 .. Len(feeds[s])}

(***************************************************************************)
(* List objects.  A Python list has an identity and holds article objects  *)
(* (dicts) that have identities as well: two variables holding the same    *)
(* identity hold the same object, and a mutation through one shows through *)
(* the other.                                                              *)
(***************************************************************************)
InitialList == [id |-> [kind |-> "init", owner |-> 0, seq |-> 0], items |-> << >>]

NoList == [id |-> [kind |-> "none", owner |-> 0, seq |-> 0], items |-> << >>]

NewList(c, k) == [id |-> [kind |-> "cycle", owner |-> c, seq |-> k], items |-> << >>]

AppendArticle(list, article) ==
    [list EXCEPT !.items =
        Append(@, [aid |-> [list |-> list.id, n |-> Len(@) + 1], val |-> article])]

Vals(list) == [i \in 1 .. Len(list.items) |-> list.items[i].val]

(***************************************************************************)
(* The inner loop of fetch_all_sources over one feed's entries: adapt and  *)
(* append each entry until one raises; what was appended stays appended.   *)
(***************************************************************************)
RECURSIVE AppendEntries(_, _, _)
AppendEntries(list, entries, source) ==
    IF entries = << >> THEN [list |-> list, raised |-> FALSE]
    ELSE IF AdaptRaises(Head(entries)) THEN [list |-> list, raised |-> TRUE]
    ELSE AppendEntries(
             AppendArticle(list, Adapt(Head(entries), source.name, source.category)),
             Tail(entries), source)

FetchOne(list, result, source) ==
    IF result.raises THEN [list |-> list, raised |-> TRUE]
    ELSE AppendEntries(list, result.entries, source)

(***************************************************************************)
(* new_articles.sort(key=lambda x: x['timestamp'], reverse=True): a stable *)
(* sort, so articles with equal timestamps keep their order.               *)
(***************************************************************************)
RECURSIVE InsertDesc(_, _)
InsertDesc(sorted, x) ==
    IF sorted = << >> THEN <<x>>
    ELSE IF Head(sorted).val.timestamp >= x.val.timestamp
         THEN <<Head(sorted)>> \o InsertDesc(Tail(sorted), x)
         ELSE <<x>> \o sorted

RECURSIVE SortFrom(_, _)
SortFrom(sorted, rest) ==
    IF rest = << >> THEN sorted
    ELSE SortFrom(InsertDesc(sorted, Head(rest)), Tail(rest))

SortUnsorted(items) == items

SortArticles(items) == SortFrom(<< >>, items)

(***************************************************************************)
(* copy.deepcopy(self.articles): a new list object holding new article     *)
(* objects with the same contents.                                         *)
(***************************************************************************)
CopyId(r) == [kind |-> "copy", owner |-> r, seq |-> 0]

ShallowCopy(list, r) == [id |-> CopyId(r), items |-> list.items]

DeepCopy(list, r) ==
    [id |-> CopyId(r),
     items |-> [i \in 1 .. Len(list.items) |->
                   [aid |-> [list |-> CopyId(r), n |-> i], val |-> list.items[i].val]]]


(***************************************************************************)
(* A get_news request that has not been made, and its missing answer.      *)
(***************************************************************************)
NoRequest ==
    [filter_type |-> Absent, filter_value |-> Absent, search |-> Absent,
     user_id |-> Absent]

NoResponse == << >>

(***************************************************************************)
(* The initial state: NewsFetcher.__new__ has set articles = [] and the    *)
(* lock, and has started the periodic thread, which is about to call       *)
(* fetch_all_sources for the first time.  The sources table holds one row. *)
(***************************************************************************)
InitState ==
    /\ articles = InitialList
    /\ lock = Free
    /\ pc = [c \in Cycles |-> IF c = LoopThread THEN "start" ELSE "unborn"]
    /\ cycleNo = [c \in Cycles |-> IF c = LoopThread THEN 1 ELSE 0]
    /\ sources = [c \in Cycles |-> << >>]
    /\ idx = [c \in Cycles |-> 0]
    /\ new_articles = [c \in Cycles |-> NoList]
    /\ failed = [c \in Cycles |-> {}]
    /\ overlap = [c \in Cycles |-> FALSE]
    /\ remaining = 0
    /\ rpc = [r \in AllReaders |-> "idle"]
    /\ snapshot = [r \in AllReaders |-> NoList]
    /\ lastPublished = << >>
    /\ outcome = [c \in Cycles |-> "none"]
    /\ request = [r \in AllReaders |-> NoRequest]
    /\ response = [r \in AllReaders |-> NoResponse]

Init ==
    /\ InitState
    /\ registry = <<1>>
    /\ nextSourceId = 2
    /\ feeds = [s \in SourceIds |-> Feed(s)]

\* The same program start, with the first two default sources registered.
InitNews ==
    /\ InitState
    /\ registry = <<1, 2>>
    /\ nextSourceId = 3
    /\ feeds = [s \in SourceIds |-> Feed(s)]

\* The same program start, with the first source serving any feed of the pool.
InitFeed ==
    /\ InitState
    /\ registry = <<1>>
    /\ nextSourceId = 2
    /\ \E f \in FeedPool : feeds = [s \in SourceIds |-> IF s = 1 THEN f ELSE Feed(s)]

Running(p) == p \in {"start", "fetch", "acquire", "publish"}

(***************************************************************************)
(* Where a thread goes when fetch_all_sources returns: the periodic loop   *)
(* calls time.sleep(300), a refresh thread ends.  The locals of the call   *)
(* are gone; outcome keeps how the cycle ended: "error" (nothing           *)
(* published), "empty" or "some" (a list without or with articles          *)
(* published).                                                             *)
(***************************************************************************)
AfterCycleStop(c) == "done"

AfterCycle(c) == IF c = LoopThread THEN "sleep" ELSE "done"

FinishCycle(c, how) ==
    /\ pc' = [pc EXCEPT ![c] = AfterCycle(c)]
    /\ remaining' = IF c = LoopThread THEN SleepInterval ELSE remaining
    /\ outcome' = [outcome EXCEPT ![c] = how]
    /\ sources' = [sources EXCEPT ![c] = << >>]
    /\ new_articles' = [new_articles EXCEPT ![c] = NoList]
    /\ idx' = [idx EXCEPT ![c] = 0]
    /\ failed' = [failed EXCEPT ![c] = {}]

(***************************************************************************)
(* fetch_all_sources, lines 144-149: connect and SELECT * FROM sources.    *)
(* Either raises (no database file, no table yet, a locked database); the  *)
(* outer handler then prints and the call returns.                         *)
(***************************************************************************)
OnCycleErrorClear(cache) == InitialList

OnCycleError(cache) == cache

ReadRegistryLocked(c) ==
    /\ pc[c] = "start"
    /\ lock = Free
    /\ \/ /\ sources' = [sources EXCEPT ![c] = [i \in 1 .. Len(registry) |-> SourceRow(registry[i])]]
          /\ new_articles' = [new_articles EXCEPT ![c] = NewList(c, cycleNo[c])]
          /\ idx' = [idx EXCEPT ![c] = 1]
          /\ failed' = [failed EXCEPT ![c] = {}]
          /\ pc' = [pc EXCEPT ![c] = "fetch"]
          /\ lock' = CycleHolder(c)
          /\ UNCHANGED <<articles, remaining, outcome>>
       \/ /\ articles' = OnCycleError(articles)
          /\ FinishCycle(c, "error")
          /\ UNCHANGED lock
    /\ UNCHANGED <<registry, nextSourceId, cycleNo, overlap, rpc, snapshot, lastPublished>>
    /\ UNCHANGED outside

ReadRegistry(c) ==
    /\ pc[c] = "start"
    /\ \/ /\ sources' = [sources EXCEPT ![c] = [i \in 1 .. Len(registry) |-> SourceRow(registry[i])]]
          /\ new_articles' = [new_articles EXCEPT ![c] = NewList(c, cycleNo[c])]
          /\ idx' = [idx EXCEPT ![c] = 1]
          /\ failed' = [failed EXCEPT ![c] = {}]
          /\ pc' = [pc EXCEPT ![c] = "fetch"]
          /\ UNCHANGED <<articles, remaining, outcome>>
       \/ /\ articles' = OnCycleError(articles)
          /\ FinishCycle(c, "error")
    /\ UNCHANGED <<registry, nextSourceId, lock, cycleNo, overlap, rpc, snapshot, lastPublished>>
    /\ UNCHANGED outside

(***************************************************************************)
(* One pass of the for loop, lines 150-156: parse the feed of the next     *)
(* source and adapt its entries; an exception ends this source only.       *)
(***************************************************************************)
FetchSource(c) ==
    /\ pc[c] = "fetch"
    /\ idx[c] <= Len(sources[c])
    /\ \E result \in FeedResults(sources[c][idx[c]].id) :
          LET got == FetchOne(new_articles[c], result, sources[c][idx[c]]) IN
          /\ new_articles' = [new_articles EXCEPT ![c] = got.list]
          /\ failed' = [failed EXCEPT ![c] =
                           IF got.raised THEN @ \cup {sources[c][idx[c]].id} ELSE @]
    /\ idx' = [idx EXCEPT ![c] = @ + 1]
    /\ UNCHANGED <<registry, nextSourceId, articles, lock, pc, cycleNo, sources,
                   overlap, remaining, rpc, snapshot, lastPublished, outcome>>
    /\ UNCHANGED outside

(***************************************************************************)
(* Line 158: the for loop is over; sort the list in place.                 *)
(***************************************************************************)
SortStep(c) ==
    /\ pc[c] = "fetch"
    /\ idx[c] > Len(sources[c])
    /\ new_articles' = [new_articles EXCEPT ![c].items = SortArticles(@)]
    /\ pc' = [pc EXCEPT ![c] = "acquire"]
    /\ UNCHANGED <<registry, nextSourceId, articles, lock, cycleNo, sources, idx,
                   failed, overlap, remaining, rpc, snapshot, lastPublished,
                   outcome>>
    /\ UNCHANGED outside

(***************************************************************************)
(* Line 160: with self.lock -- wait for the lock and take it.              *)
(***************************************************************************)
AcquireForPublish(c) ==
    /\ pc[c] = "acquire"
    /\ lock = Free
    /\ lock' = CycleHolder(c)
    /\ pc' = [pc EXCEPT ![c] = "publish"]
    /\ UNCHANGED <<registry, nextSourceId, articles, cycleNo, sources, idx,
                   new_articles, failed, overlap, remaining, rpc, snapshot, lastPublished, outcome>>
    /\ UNCHANGED outside

(***************************************************************************)
(* Lines 161-162: self.articles = new_articles, release the lock, return.  *)
(***************************************************************************)
PublishExtend(cache, list) == [cache EXCEPT !.items = @ \o list.items]

PublishKeepIfEmpty(cache, list) == IF list.items = << >> THEN cache ELSE list

PublishFirstWins(cache, list) == IF cache.id.kind = "init" THEN list ELSE cache

PublishValue(cache, list) == list

Publish(c) ==
    /\ pc[c] = "publish"
    /\ lock = CycleHolder(c)
    /\ articles' = PublishValue(articles, new_articles[c])
    /\ lock' = Free
    /\ lastPublished' = Vals(new_articles[c])
    /\ FinishCycle(c, IF new_articles[c].items = << >> THEN "empty" ELSE "some")
    /\ UNCHANGED <<registry, nextSourceId, cycleNo, overlap, rpc, snapshot>>
    /\ UNCHANGED outside

(***************************************************************************)
(* update_loop, lines 138-140: time.sleep(300), then the next cycle.       *)
(***************************************************************************)
TickSeconds == SleepInterval \div TicksPerSleep

Tick ==
    /\ pc[LoopThread] = "sleep"
    /\ remaining > 0
    /\ remaining' = IF remaining > TickSeconds THEN remaining - TickSeconds ELSE 0
    /\ UNCHANGED <<registry, nextSourceId, articles, lock, pc, cycleNo, sources, idx,
                   new_articles, failed, overlap, rpc, snapshot, lastPublished,
                   outcome>>
    /\ UNCHANGED outside

SleepOverAnytime(left) == TRUE

SleepOver(left) == left = 0

Wake ==
    /\ pc[LoopThread] = "sleep"
    /\ SleepOver(remaining)
    /\ cycleNo[LoopThread] < MaxCycles
    /\ pc' = [pc EXCEPT ![LoopThread] = "start"]
    /\ cycleNo' = [cycleNo EXCEPT ![LoopThread] = @ + 1]
    /\ overlap' = [c \in Cycles |-> overlap[c] \/ (c # LoopThread /\ Running(pc[c]))]
    /\ UNCHANGED <<registry, nextSourceId, articles, lock, sources, idx, new_articles,
                   failed, remaining, rpc, snapshot, lastPublished, outcome>>
    /\ UNCHANGED outside


(***************************************************************************)
(* refresh_now, lines 171-172: start a daemon thread that will run         *)
(* fetch_all_sources, and return.                                          *)
(***************************************************************************)
HasUnborn == \E t \in RefreshThreads : pc[t] = "unborn"

NewThread == CHOOSE t \in RefreshThreads :
                 pc[t] = "unborn" /\ \A u \in RefreshThreads : pc[u] = "unborn" => t <= u

RefreshNow(t) ==
    /\ pc' = [pc EXCEPT ![t] = "start"]
    /\ cycleNo' = [cycleNo EXCEPT ![t] = 1]
    /\ overlap' = [overlap EXCEPT ![t] = Running(pc[LoopThread])]

Roles == {"admin", "reader"}

(***************************************************************************)
(* manage_sources, POST, lines 280-287: insert a row, commit, refresh_now. *)
(***************************************************************************)
AddSource(role) ==
    /\ nextSourceId <= MaxSources
    /\ HasUnborn
    /\ \/ /\ role # "admin"
          /\ UNCHANGED vars
       \/ /\ role = "admin"
          /\ registry' = Append(registry, nextSourceId)
          /\ nextSourceId' = nextSourceId + 1
          /\ RefreshNow(NewThread)
          /\ UNCHANGED <<articles, lock, sources, idx, new_articles, failed, remaining,
                         rpc, snapshot, lastPublished, outcome>>
          /\ UNCHANGED outside

(***************************************************************************)
(* manage_sources, DELETE, lines 289-294: delete the row, commit.          *)
(***************************************************************************)
RECURSIVE Without(_, _)
Without(seq, x) ==
    IF seq = << >> THEN << >>
    ELSE IF Head(seq) = x THEN Without(Tail(seq), x)
    ELSE <<Head(seq)>> \o Without(Tail(seq), x)

DeleteSource(role, source_id) ==
    \/ /\ role # "admin"
       /\ UNCHANGED vars
    \/ /\ role = "admin"
       /\ registry' = Without(registry, source_id)
       /\ UNCHANGED <<nextSourceId, articles, lock, pc, cycleNo, sources, idx,
                      new_articles, failed, overlap, remaining, rpc, snapshot, lastPublished, outcome>>
       /\ UNCHANGED outside

(***************************************************************************)
(* get_cached_articles, lines 167-169, called by get_news (line 299):      *)
(* the call, taking the lock, and the copy with the release and return.    *)
(***************************************************************************)
CallRead(r) ==
    /\ rpc[r] = "idle"
    /\ rpc' = [rpc EXCEPT ![r] = "wait"]
    /\ UNCHANGED <<registry, nextSourceId, articles, lock, pc, cycleNo, sources, idx,
                   new_articles, failed, overlap, remaining, snapshot, lastPublished, outcome>>
    /\ UNCHANGED outside

AcquireRead(r) ==
    /\ rpc[r] = "wait"
    /\ lock = Free
    /\ lock' = ReaderHolder(r)
    /\ rpc' = [rpc EXCEPT ![r] = "copy"]
    /\ UNCHANGED <<registry, nextSourceId, articles, pc, cycleNo, sources, idx,
                   new_articles, failed, overlap, remaining, snapshot, lastPublished, outcome>>
    /\ UNCHANGED outside

CopyReturn(r) ==
    /\ rpc[r] = "copy"
    /\ lock = ReaderHolder(r)
    /\ snapshot' = [snapshot EXCEPT ![r] = DeepCopy(articles, r)]
    /\ lock' = Free
    /\ rpc' = [rpc EXCEPT ![r] = "returned"]
    /\ UNCHANGED <<registry, nextSourceId, articles, pc, cycleNo, sources, idx,
                   new_articles, failed, overlap, remaining, lastPublished,
                   outcome>>
    /\ UNCHANGED outside

(***************************************************************************)
(* What a caller may do with the list it got: remove its first element, or *)
(* overwrite the title of its first article.  A mutation of an object      *)
(* shows through every variable that holds that object.                    *)
(***************************************************************************)
DropFirst(list, id) ==
    IF list.id = id THEN [list EXCEPT !.items = Tail(@)] ELSE list

Edited == <<"e", "d", "i", "t", "e", "d">>

Retitle(list, aid) ==
    [list EXCEPT !.items =
        [i \in 1 .. Len(@) |->
            IF @[i].aid = aid THEN [@[i] EXCEPT !.val.title = Edited] ELSE @[i]]]

CallerMutateList(r) ==
    /\ rpc[r] = "returned"
    /\ snapshot[r].items # << >>
    /\ snapshot' = [q \in AllReaders |-> DropFirst(snapshot[q], snapshot[r].id)]
    /\ articles' = DropFirst(articles, snapshot[r].id)
    /\ rpc' = [rpc EXCEPT ![r] = "mutated"]
    /\ UNCHANGED <<registry, nextSourceId, lock, pc, cycleNo, sources, idx,
                   new_articles, failed, overlap, remaining, lastPublished,
                   outcome>>
    /\ UNCHANGED outside

CallerMutateArticle(r) ==
    /\ rpc[r] = "returned"
    /\ snapshot[r].items # << >>
    /\ snapshot' = [q \in AllReaders |-> Retitle(snapshot[q], snapshot[r].items[1].aid)]
    /\ articles' = Retitle(articles, snapshot[r].items[1].aid)
    /\ rpc' = [rpc EXCEPT ![r] = "mutated"]
    /\ UNCHANGED <<registry, nextSourceId, lock, pc, cycleNo, sources, idx,
                   new_articles, failed, overlap, remaining, lastPublished,
                   outcome>>
    /\ UNCHANGED outside

Next ==
    \/ \E c \in Cycles : ReadRegistry(c)
    \/ \E c \in Cycles : FetchSource(c)
    \/ \E c \in Cycles : SortStep(c)
    \/ \E c \in Cycles : AcquireForPublish(c)
    \/ \E c \in Cycles : Publish(c)
    \/ Tick
    \/ Wake
    \/ \E role \in Roles : AddSource(role)
    \/ \E role \in Roles, source_id \in SourceIds : DeleteSource(role, source_id)
    \/ \E r \in Readers : CallRead(r)
    \/ \E r \in Readers : AcquireRead(r)
    \/ \E r \in Readers : CopyReturn(r)
    \/ \E r \in Readers : CallerMutateList(r)
    \/ \E r \in Readers : CallerMutateArticle(r)

Spec == Init /\ [][Next]_vars

(***************************************************************************)
(* The periodic loop alone with two request threads that call              *)
(* get_cached_articles at any time: the threads that share self.lock when  *)
(* nobody changes the registry.                                            *)
(***************************************************************************)
ReadsNext ==
    \/ ReadRegistry(LoopThread)
    \/ FetchSource(LoopThread)
    \/ SortStep(LoopThread)
    \/ AcquireForPublish(LoopThread)
    \/ Publish(LoopThread)
    \/ Tick
    \/ Wake
    \/ \E r \in AllReaders : CallRead(r)
    \/ \E r \in AllReaders : AcquireRead(r)
    \/ \E r \in AllReaders : CopyReturn(r)

SpecReads == Init /\ [][ReadsNext]_vars

(***************************************************************************)
(* Scheduling of the lock: a thread inside a with-block runs on and        *)
(* releases the lock; a thread waiting for the lock gets it once it is     *)
(* free often enough.  Nothing is assumed about the registry read or       *)
(* about feedparser.parse, which may never return.                         *)
(***************************************************************************)
LockFairness ==
    /\ WF_vars(Publish(LoopThread))
    /\ \A r \in AllReaders : WF_vars(CopyReturn(r)) /\ SF_vars(AcquireRead(r))

FairReads == SpecReads /\ LockFairness

(***************************************************************************)
(* Scheduling of the periodic loop: the thread of update_loop keeps        *)
(* running, every call it makes returns (the registry read, each           *)
(* feedparser.parse, time.sleep), and it gets the lock it waits for.       *)
(***************************************************************************)
LoopFairness ==
    /\ WF_vars(ReadRegistry(LoopThread))
    /\ WF_vars(FetchSource(LoopThread))
    /\ WF_vars(SortStep(LoopThread))
    /\ SF_vars(AcquireForPublish(LoopThread))
    /\ WF_vars(Publish(LoopThread))
    /\ WF_vars(Tick)
    /\ WF_vars(Wake)
    /\ \A r \in AllReaders : WF_vars(CopyReturn(r))

FairLoop == SpecReads /\ LoopFairness

(***************************************************************************)
(* Text operations of the filters: str.lower, str.strip, str.split(',')    *)
(* and the substring test `q in text`.                                     *)
(***************************************************************************)
UpperLetters ==
    <<"A", "B", "C", "D", "E", "F", "G", "H", "I", "J", "K", "L", "M",
      "N", "O", "P", "Q", "R", "S", "T", "U", "V", "W", "X", "Y", "Z">>

LowerLetters ==
    <<"a", "b", "c", "d", "e", "f", "g", "h", "i", "j", "k", "l", "m",
      "n", "o", "p", "q", "r", "s", "t", "u", "v", "w", "x", "y", "z">>

LowerChar(ch) ==
    IF \E i \in DOMAIN UpperLetters : UpperLetters[i] = ch
    THEN LowerLetters[CHOOSE i \in DOMAIN UpperLetters : UpperLetters[i] = ch]
    ELSE ch

Lower(s) == [i \in 1 .. Len(s) |-> LowerChar(s[i])]

RECURSIVE LStrip(_)
LStrip(s) == IF s # << >> /\ Head(s) = " " THEN LStrip(Tail(s)) ELSE s

RECURSIVE RStrip(_)
RStrip(s) ==
    IF s # << >> /\ s[Len(s)] = " " THEN RStrip(SubSeq(s, 1, Len(s) - 1)) ELSE s

Strip(s) == RStrip(LStrip(s))

RECURSIVE SplitFrom(_, _, _)
SplitFrom(s, sep, part) ==
    IF s = << >> THEN <<part>>
    ELSE IF Head(s) = sep THEN <<part>> \o SplitFrom(Tail(s), sep, << >>)
    ELSE SplitFrom(Tail(s), sep, Append(part, Head(s)))

Split(s, sep) == SplitFrom(s, sep, << >>)

Contains(text, q) ==
    \E i \in 0 .. (Len(text) - Len(q)) : SubSeq(text, i + 1, i + Len(q)) = q

(***************************************************************************)
(* The filter strategies, lines 179-199.  A list of articles is the        *)
(* sequence of its article objects; user_prefs may be None.                *)
(***************************************************************************)
AllSentinel == <<"A", "l", "l">>

CategoryStrategyNoSentinel(articles_in, category) ==
    SelectSeq(articles_in, LAMBDA a : Lower(a.val.category) = Lower(category))

CategoryStrategyCaseSensitive(articles_in, category) ==
    IF category = AllSentinel THEN articles_in
    ELSE SelectSeq(articles_in, LAMBDA a : a.val.category = category)

CategoryStrategy(articles_in, category) ==
    IF category = AllSentinel THEN articles_in
    ELSE SelectSeq(articles_in, LAMBDA a : Lower(a.val.category) = Lower(category))

PreferenceStrategy(articles_in, user_prefs) ==
    IF ~Has(user_prefs) \/ user_prefs[1] = << >> THEN articles_in
    ELSE LET parts == Split(user_prefs[1], ",")
             prefs_list == [i \in 1 .. Len(parts) |-> Lower(Strip(parts[i]))]
         IN  SelectSeq(articles_in,
                       LAMBDA a : \E i \in 1 .. Len(prefs_list) :
                                      prefs_list[i] = Lower(a.val.category))

SearchStrategy(articles_in, query) ==
    IF query = << >> THEN articles_in
    ELSE LET q == Lower(query) IN
         SelectSeq(articles_in,
                   LAMBDA a : \/ Contains(Lower(a.val.title), q)
                              \/ Contains(Lower(a.val.summary), q))

(***************************************************************************)
(* The users table as get_news reads it (line 312): user 1 never saved     *)
(* preferences (NULL), user 2 saved an empty list, users 3 and 4 saved     *)
(* lists; no row has id 5.                                                 *)
(***************************************************************************)
Chars(word) ==
    CASE word = "politics , SPORTS" ->
           <<"p", "o", "l", "i", "t", "i", "c", "s", " ", ",", " ",
             "S", "P", "O", "R", "T", "S">>
      [] word = "tech" -> <<"t", "e", "c", "h">>
      [] word = "technology" -> Lower(Technology)
      [] word = "POLITICS" -> <<"P", "O", "L", "I", "T", "I", "C", "S">>
      [] word = "all" -> <<"a", "l", "l">>
      [] word = " " -> <<" ">>
      [] word = " Go " -> <<" ", "G", "o", " ">>
      [] word = "it" -> <<"i", "t">>
      [] word = "zz" -> <<"z", "z">>
      [] OTHER -> << >>

UserIds == 1 .. 5

Users(uid) ==
    CASE uid = 1 -> Some([preferences |-> Absent])
      [] uid = 2 -> Some([preferences |-> Some(Chars(""))])
      [] uid = 3 -> Some([preferences |-> Some(Chars("politics , SPORTS"))])
      [] uid = 4 -> Some([preferences |-> Some(Chars("tech"))])
      [] OTHER -> Absent

(***************************************************************************)
(* The requests of the model: each argument absent or one of a few values. *)
(***************************************************************************)
RequestArgs ==
    [filter_type : {Absent, Some("All"), Some("Category"), Some("Preferences")},
     filter_value : {Absent, Some(AllSentinel), Some(Chars("all")),
                     Some(Chars("technology")), Some(Chars("POLITICS")),
                     Some(Chars("tech"))},
     search : {Absent, Some(Chars(" ")), Some(Chars(" Go ")), Some(Chars("it")),
               Some(Chars("zz"))},
     user_id : {Absent} \cup {Some(u) : u \in UserIds}]

(***************************************************************************)
(* get_news, lines 296-323.  Lines 305-315: the primary filter.            *)
(***************************************************************************)
PrimaryFilter(all_articles, filter_type, filter_value, user_id) ==
    IF filter_type = "Category" THEN CategoryStrategy(all_articles, filter_value)
    ELSE IF filter_type = "Preferences" /\ Has(user_id)
    THEN LET user == Users(user_id[1]) IN
         IF Has(user) /\ Has(user[1].preferences) /\ user[1].preferences[1] # << >>
         THEN PreferenceStrategy(all_articles, user[1].preferences)
         ELSE all_articles
    ELSE all_articles

SearchInputUnfiltered(all_articles, filtered) == all_articles

SearchInput(all_articles, filtered) == filtered

(***************************************************************************)
(* The whole handler in one step: the cache is copied under the lock       *)
(* (get_cached_articles), everything after works on that private copy.     *)
(***************************************************************************)
Requester == 1

GetNews(r, args) ==
    /\ rpc[r] = "idle"
    /\ lock = Free
    /\ LET all_articles == DeepCopy(articles, r)
           filter_type == GetOr(args.filter_type, "All")
           filter_value == GetOr(args.filter_value, << >>)
           primary == PrimaryFilter(all_articles.items, filter_type, filter_value,
                                    args.user_id)
           search_query == Strip(GetOr(args.search, << >>))
           filtered == IF search_query # << >>
                       THEN SearchStrategy(SearchInput(all_articles.items, primary),
                                           search_query)
                       ELSE primary
       IN  /\ snapshot' = [snapshot EXCEPT ![r] = all_articles]
           /\ response' = [response EXCEPT ![r] = Some(filtered)]
    /\ request' = [request EXCEPT ![r] = args]
    /\ rpc' = [rpc EXCEPT ![r] = "returned"]
    /\ UNCHANGED <<registry, nextSourceId, articles, lock, pc, cycleNo, sources, idx,
                   new_articles, failed, overlap, remaining, lastPublished, outcome,
                   feeds>>

NewsNext ==
    \/ ReadRegistry(LoopThread)
    \/ FetchSource(LoopThread)
    \/ SortStep(LoopThread)
    \/ AcquireForPublish(LoopThread)
    \/ Publish(LoopThread)
    \/ \E args \in RequestArgs : GetNews(Requester, args)

SpecNews == InitNews /\ [][NewsNext]_vars

(***************************************************************************)
(* One cycle of the periodic loop over a feed of the pool: every entry of  *)
(* the feed goes through RSSAdapter.adapt, the list is sorted and          *)
(* published.                                                              *)
(***************************************************************************)
FeedNext ==
    \/ ReadRegistry(LoopThread)
    \/ FetchSource(LoopThread)
    \/ SortStep(LoopThread)
    \/ AcquireForPublish(LoopThread)
    \/ Publish(LoopThread)

SpecFeed == InitFeed /\ [][FeedNext]_vars


(***************************************************************************)
(* Vocabulary of the properties.                                           *)
(***************************************************************************)
Published(c) == outcome[c] \in {"empty", "some"}

Returned(r) == rpc[r] = "returned"

Returns(r) == rpc[r] = "copy" /\ rpc'[r] = "returned"

RECURSIVE SortedDesc(_)
SortedDesc(items) ==
    \/ Len(items) <= 1
    \/ /\ items[1].val.timestamp >= items[2].val.timestamp
       /\ SortedDesc(Tail(items))

\* The list a cycle over rows `rows` owes when exactly the sources in `bad`
\* raised: every article of every other source, sorted.
RECURSIVE HealthyArticles(_, _, _)
HealthyArticles(list, rows, bad) ==
    IF rows = << >> THEN list
    ELSE HealthyArticles(
             IF Head(rows).id \in bad THEN list
             ELSE AppendEntries(list, feeds[Head(rows).id], Head(rows)).list,
             Tail(rows), bad)

IsolatedResult(c) ==
    Vals([id |-> NoList.id, items |-> SortFrom(<< >>, HealthyArticles(NoList, sources[c], failed[c]).items)])

AllSourcesFailed(c) == failed[c] = {sources[c][i].id : i \in 1 .. Len(sources[c])}

(***************************************************************************)
(* C1.  Every value get_cached_articles returns is the initial empty list  *)
(* or the whole list of exactly one cycle: at the moment of the return it  *)
(* equals the list published last (initially the empty list), never a      *)
(* prefix of a list and never a mixture of two lists.                      *)
(***************************************************************************)
C1_ReadsWholeList ==
    [][\A r \in Readers : Returns(r) => Vals(snapshot'[r]) = lastPublished]_vars

C1_Witness ==
    \E r \in Readers, c \in Cycles :
        /\ Returned(r)
        /\ snapshot[r].items # << >>
        /\ pc[c] \in {"fetch", "acquire"}
        /\ new_articles[c].items # << >>
        /\ Vals(new_articles[c]) # Vals(snapshot[r])

(***************************************************************************)
(* C2, as the claim states it.  When a refresh cycle that ran concurrently *)
(* with the first periodic cycle and that periodic cycle have both         *)
(* finished, and one of the two fetched at least one article, the cache is *)
(* not empty.                                                              *)
(***************************************************************************)
BothFinished(t) ==
    /\ overlap[t]
    /\ pc[t] = "done"
    /\ pc[LoopThread] = "sleep"
    /\ cycleNo[LoopThread] = 1

C2_NeverEmptyIfOneFetched ==
    \A t \in RefreshThreads :
        (BothFinished(t) /\ (outcome[t] = "some" \/ outcome[LoopThread] = "some"))
            => articles.items # << >>

(***************************************************************************)
(* C2, amended.  When both cycles have finished and at least one of them   *)
(* has published, the cache is non-empty exactly when the cycle that       *)
(* published last fetched at least one article.                            *)
(***************************************************************************)
C2_LastPublisherDecides ==
    \A t \in RefreshThreads :
        (BothFinished(t) /\ (Published(t) \/ Published(LoopThread)))
            => (articles.items # << >> <=> lastPublished # << >>)

C2_Witness ==
    \E t \in RefreshThreads :
        /\ BothFinished(t)
        /\ outcome[t] = "empty"
        /\ outcome[LoopThread] = "some"
        /\ articles.items # << >>

(***************************************************************************)
(* C3.  Source isolation: the list a cycle is about to publish holds       *)
(* exactly the articles of the sources that did not raise, and no article  *)
(* of a source that raised.                                                *)
(***************************************************************************)
C3_SourceIsolation ==
    \A c \in Cycles : pc[c] = "publish" => Vals(new_articles[c]) = IsolatedResult(c)

(***************************************************************************)
(* C4.  A cycle whose registry read raises publishes nothing: the step     *)
(* leaves the cached list and the record of the last publish as they were, *)
(* and the thread carries on as after any cycle (the loop sleeps, a        *)
(* refresh thread ends).                                                   *)
(***************************************************************************)
C4_FailedCycleKeepsCache ==
    [][\A c \in Cycles :
          (pc[c] = "start" /\ pc'[c] # "start" /\ pc'[c] # "fetch")
              => /\ articles' = articles
                 /\ lastPublished' = lastPublished
                 /\ pc'[c] = AfterCycle(c)
                 /\ outcome'[c] = "error"]_vars

C4_Witness ==
    /\ outcome[LoopThread] = "error"
    /\ cycleNo[LoopThread] = 2
    /\ pc[LoopThread] = "sleep"
    /\ \A t \in RefreshThreads : pc[t] = "unborn"
    /\ articles.items # << >>

(***************************************************************************)
(* C5.  A cycle in which every source raised (or that read an empty        *)
(* registry) publishes the empty list: after its publish step the cache    *)
(* holds no article.                                                       *)
(***************************************************************************)
C5_AllFailedPublishesEmpty ==
    [][\A c \in Cycles :
          (pc[c] = "publish" /\ pc'[c] # "publish" /\ AllSourcesFailed(c))
              => articles'.items = << >>]_vars

(***************************************************************************)
(* C6.  The cached list and every list get_cached_articles has returned    *)
(* are sorted by timestamp, non-increasing.                                *)
(***************************************************************************)
C6_SortedDescending ==
    /\ SortedDesc(articles.items)
    /\ \A r \in Readers : Returned(r) => SortedDesc(snapshot[r].items)

C6_Witness ==
    /\ Len(articles.items) = 3
    /\ articles.items[2].aid.n = 3
    /\ \E r \in Readers : Returned(r) /\ Vals(snapshot[r]) = Vals(articles)

(***************************************************************************)
(* C7.  The returned list is an independent snapshot: a caller's mutation  *)
(* of the list or of an article in it leaves the cached list unchanged,    *)
(* and no step of anyone else (a later publish included) changes a list    *)
(* already returned.                                                       *)
(***************************************************************************)
C7_IndependentSnapshot ==
    [][\A r \in Readers :
          /\ (rpc[r] = "returned" /\ rpc'[r] = "mutated") => articles' = articles
          /\ (rpc[r] \in {"returned", "mutated"} /\ rpc'[r] = rpc[r])
                 => snapshot'[r] = snapshot[r]]_vars

C7_Witness ==
    \E r \in Readers :
        /\ rpc[r] = "mutated"
        /\ Len(articles.items) = 2
        /\ Vals(articles) = lastPublished
        /\ Len(snapshot[r].items) = 1

(***************************************************************************)
(* C8.  The periodic thread starts in its first cycle without sleeping;    *)
(* afterwards it leaves a cycle only into a sleep of 300 seconds, and      *)
(* starts a cycle only out of a sleep whose 300 seconds have elapsed.      *)
(***************************************************************************)
C8_SchedulerAlternates ==
    /\ pc[LoopThread] = "start" /\ cycleNo[LoopThread] = 1
    /\ [][/\ (Running(pc[LoopThread]) /\ ~Running(pc'[LoopThread]))
                 => (pc'[LoopThread] = "sleep" /\ remaining' = SleepInterval)
          /\ (pc[LoopThread] = "sleep" /\ pc'[LoopThread] # "sleep")
                 => (remaining = 0 /\ pc'[LoopThread] = "start")
          /\ (cycleNo'[LoopThread] # cycleNo[LoopThread])
                 => (pc[LoopThread] = "sleep" /\ remaining = 0
                     /\ cycleNo'[LoopThread] = cycleNo[LoopThread] + 1)
          /\ (pc[LoopThread] = "sleep" /\ pc'[LoopThread] = "sleep")
                 => remaining' <= remaining]_vars

C8_Witness ==
    /\ cycleNo[LoopThread] = 2
    /\ pc[LoopThread] = "fetch"
    /\ remaining = 0

(***************************************************************************)
(* C9.  refresh_now returns with the cycle it started not yet run and the  *)
(* periodic loop's position, cycle count and remaining sleep unchanged;    *)
(* and once a refresh cycle that overlapped a periodic cycle and the       *)
(* periodic thread have both published, the cache holds the list that was  *)
(* published last.                                                         *)
(***************************************************************************)
C9_RefreshIndependentLastWins ==
    /\ [](\A t \in RefreshThreads :
             (overlap[t] /\ Published(t) /\ Published(LoopThread))
                 => Vals(articles) = lastPublished)
    /\ [][\A t \in RefreshThreads :
             (pc[t] = "unborn" /\ pc'[t] # "unborn")
                 => /\ pc'[t] = "start"
                    /\ pc'[LoopThread] = pc[LoopThread]
                    /\ cycleNo'[LoopThread] = cycleNo[LoopThread]
                    /\ remaining' = remaining
                    /\ articles' = articles]_vars

C9_Witness ==
    \E t \in RefreshThreads :
        /\ BothFinished(t)
        /\ outcome[t] = "some"
        /\ outcome[LoopThread] = "some"
        /\ articles.id = NewList(LoopThread, 1).id
        /\ Len(articles.items) = 1

(***************************************************************************)
(* C10.  Every step that changes the source registry, an insert or a       *)
(* delete, starts a refresh thread.                                        *)
(***************************************************************************)
C10_RegistryChangeRefreshes ==
    [][registry' # registry
          => \E t \in RefreshThreads : pc[t] = "unborn" /\ pc'[t] = "start"]_vars

(***************************************************************************)
(* C11: reads never block on each other: a reader that has called          *)
(* get_cached_articles never waits for the lock while another reader holds *)
(* it to copy the list.                                                    *)
(***************************************************************************)
C11_ReadsNeverBlockEachOther ==
    \A r \in AllReaders, q \in AllReaders :
        ~(r # q /\ rpc[r] = "wait" /\ rpc[q] = "copy" /\ lock = ReaderHolder(q))

(***************************************************************************)
(* C17: no cycle outcome stops the periodic scheduler: the loop thread     *)
(* never ends; every cycle it starts, whatever its outcome, leads to       *)
(* Sleeping; and every sleep leads to the start of the next cycle (up to   *)
(* the MaxCycles cycles the model follows).                                *)
(***************************************************************************)
C17_SchedulerNeverStops ==
    /\ [](pc[LoopThread] \notin {"done", "unborn"})
    /\ \A n \in 1 .. MaxCycles :
          (pc[LoopThread] = "start" /\ cycleNo[LoopThread] = n)
              ~> (pc[LoopThread] = "sleep" /\ cycleNo[LoopThread] = n)
    /\ \A n \in 1 .. (MaxCycles - 1) :
          (pc[LoopThread] = "sleep" /\ cycleNo[LoopThread] = n)
              ~> (pc[LoopThread] = "start" /\ cycleNo[LoopThread] = n + 1)

\* The registry read of the first cycle failed, and the second cycle started.
C17_Witness ==
    /\ pc[LoopThread] = "start"
    /\ cycleNo[LoopThread] = 2
    /\ outcome[LoopThread] = "error"

(***************************************************************************)
(* C18: aggregation never blocks readers: a cycle holds the lock only at   *)
(* the swap; a copy taken while the cycle is reading the registry or       *)
(* fetching is the list published last; and every reader that waits for    *)
(* the lock returns, whether or not the fetches of the cycle ever return.  *)
(***************************************************************************)
C18_AggregationNeverBlocksReaders ==
    /\ [](\A c \in Cycles : lock = CycleHolder(c) => pc[c] = "publish")
    /\ [][\A r \in AllReaders :
            (CopyReturn(r) /\ pc[LoopThread] \in {"start", "fetch"})
                => Vals(snapshot'[r]) = lastPublished]_vars
    /\ \A r \in AllReaders : (rpc[r] = "wait") ~> (rpc[r] = "returned")

\* A reader is copying the first cycle's list while the second cycle has
\* fetched one source and not yet the rest.
C18_Witness ==
    /\ pc[LoopThread] = "fetch"
    /\ cycleNo[LoopThread] = 2
    /\ idx[LoopThread] <= Len(sources[LoopThread])
    /\ lastPublished # << >>
    /\ \E r \in AllReaders : rpc[r] = "copy" /\ lock = ReaderHolder(r)

(***************************************************************************)
(* C20: no stale overwrite: when a publish leaves no cycle in flight, the  *)
(* list it put in the cache was built from a registry read that saw every  *)
(* source now in the registry; in particular the source that AddSource     *)
(* added before it called refresh_now.  Cycles whose registry read failed  *)
(* publish nothing and are left aside.                                     *)
(***************************************************************************)
C20_NoStaleOverwrite ==
    [][\A c \in Cycles :
          (Publish(c) /\ \A d \in Cycles : ~Running(pc'[d]) /\ outcome'[d] # "error")
              => \A i \in 1 .. Len(registry) :
                     \E j \in 1 .. Len(sources[c]) : sources[c][j].id = registry[i]]_vars

(***************************************************************************)
(* An article of the loop's cycle is the adaptation of the entry at its    *)
(* position in the feed of the first source: entries are appended in feed  *)
(* order and sorting keeps the identity of each article.                   *)
(***************************************************************************)
EntryOf(item) == feeds[1][item.aid.n]

HasParsedTime(entry) == Has(entry.published_parsed) \/ Has(entry.updated_parsed)

Min(a, b) == IF a < b THEN a ELSE b

(***************************************************************************)
(* Vocabulary of the filter claims: the request the requester made, the    *)
(* snapshot it filtered and the list it answered with; equality of two     *)
(* texts up to the case of their letters.                                  *)
(***************************************************************************)
Answered == rpc[Requester] = "returned" /\ Has(response[Requester])

Asked == request[Requester]

Snapshot == snapshot[Requester].items

Answer == response[Requester][1]

SameLetter(x, y) ==
    \/ x = y
    \/ \E i \in DOMAIN UpperLetters : {x, y} = {UpperLetters[i], LowerLetters[i]}

EqualIgnoringCase(a, b) ==
    Len(a) = Len(b) /\ \A i \in 1 .. Len(a) : SameLetter(a[i], b[i])

NoSearch(req) == req.search \in {Absent, Some(<< >>), Some(<<" ">>)}

(***************************************************************************)
(* C12: filter pass-through: on every list a request gets from the cache,  *)
(* the Category filter with "All", the Preference filter with "" or with   *)
(* no preference string, and the Search filter with "" return the list     *)
(* itself; a Category "All" request without search answers with it.        *)
(***************************************************************************)
C12_FilterPassThrough ==
    Answered =>
        /\ CategoryStrategy(Snapshot, AllSentinel) = Snapshot
        /\ PreferenceStrategy(Snapshot, Some(<< >>)) = Snapshot
        /\ PreferenceStrategy(Snapshot, Absent) = Snapshot
        /\ SearchStrategy(Snapshot, << >>) = Snapshot
        /\ (/\ Asked.filter_type = Some("Category")
            /\ Asked.filter_value = Some(AllSentinel)
            /\ NoSearch(Asked)) => Answer = Snapshot

\* A Category "All" request answered with a list of three articles of two
\* categories.
C12_Witness ==
    /\ Answered
    /\ Asked.filter_type = Some("Category")
    /\ Asked.filter_value = Some(AllSentinel)
    /\ NoSearch(Asked)
    /\ Len(Snapshot) = 3
    /\ \E j, k \in 1 .. 3 : Snapshot[j].val.category # Snapshot[k].val.category
    /\ Answer = Snapshot

(***************************************************************************)
(* C13: for a category value other than "All", the Category filter returns *)
(* exactly the articles whose category equals the value ignoring case, in  *)
(* their input order.                                                      *)
(***************************************************************************)
C13_CategoryIgnoresCase ==
    (/\ Answered
     /\ Asked.filter_type = Some("Category")
     /\ Asked.filter_value # Some(AllSentinel)
     /\ NoSearch(Asked))
        => Answer = SelectSeq(Snapshot,
                              LAMBDA a : EqualIgnoringCase(
                                             a.val.category,
                                             GetOr(Asked.filter_value, << >>)))

\* "technology" selects the one article of category "Technology" out of three.
C13_Witness ==
    /\ Answered
    /\ Asked.filter_type = Some("Category")
    /\ Asked.filter_value = Some(Chars("technology"))
    /\ NoSearch(Asked)
    /\ Len(Snapshot) = 3
    /\ Len(Answer) = 1
    /\ Answer[1].val.category = Technology

(***************************************************************************)
(* C14: the answer of get_news is its snapshot of the cache restricted to  *)
(* the articles that pass the one primary filter chosen by filter_type and *)
(* then the search filter, which applies when the trimmed search string is *)
(* non-empty; a Preferences request with no session, no user row or no     *)
(* stored preferences passes every article.                                *)
(***************************************************************************)
PrimaryKeeps(a, req) ==
    CASE req.filter_type = Some("Category") ->
           \/ req.filter_value = Some(AllSentinel)
           \/ EqualIgnoringCase(a.val.category, GetOr(req.filter_value, << >>))
      [] req.filter_type = Some("Preferences") ->
           LET stored == IF Has(req.user_id) /\ Has(Users(req.user_id[1]))
                         THEN Users(req.user_id[1])[1].preferences
                         ELSE Absent
           IN  \/ stored \in {Absent, Some(<< >>)}
               \/ \E i \in 1 .. Len(Split(stored[1], ",")) :
                      EqualIgnoringCase(Strip(Split(stored[1], ",")[i]), a.val.category)
      [] OTHER -> TRUE

SearchKeeps(a, req) ==
    LET q == Strip(GetOr(req.search, << >>)) IN
    \/ q = << >>
    \/ \E text \in {a.val.title, a.val.summary} :
          \E i \in 0 .. (Len(text) - Len(q)) :
              EqualIgnoringCase(SubSeq(text, i + 1, i + Len(q)), q)

C14_FilterPipeline ==
    Answered =>
        Answer = SelectSeq(Snapshot,
                           LAMBDA a : PrimaryKeeps(a, Asked) /\ SearchKeeps(a, Asked))

\* Preferences "politics , SPORTS" keep the two Politics articles of three;
\* the search for "it" then keeps the one titled "No Title".
C14_Witness ==
    /\ Answered
    /\ Asked.filter_type = Some("Preferences")
    /\ Asked.user_id = Some(3)
    /\ Asked.search = Some(Chars("it"))
    /\ Len(Snapshot) = 3
    /\ Len(Answer) = 1
    /\ Answer[1].val.title = NoTitle
    /\ Answer[1].val.category = Politics

(***************************************************************************)
(* C15: adapt never fails for any raw entry a feed serves, including       *)
(* entries whose media or link items lack a url or type.                   *)
(***************************************************************************)
C15_AdaptNeverFails ==
    \A s \in SourceIds : \A i \in 1 .. Len(feeds[s]) : ~AdaptRaises(feeds[s][i])

(***************************************************************************)
(* C16: the summary of every adapted article is the first 200 characters   *)
(* of the entry's summary followed by "...", whatever the length of the    *)
(* entry's summary.                                                        *)
(***************************************************************************)
C16_SummaryTruncation ==
    \A k \in 1 .. Len(new_articles[LoopThread].items) :
        LET item == new_articles[LoopThread].items[k]
            entry == EntryOf(item)
            out == item.val.summary
        IN  Has(entry.summary) =>
               LET in == entry.summary[1]
                   kept == Min(Len(in), 200)
               IN  /\ Len(out) = kept + 3
                   /\ \A i \in 1 .. kept : out[i] = in[i]
                   /\ \A i \in (kept + 1) .. (kept + 3) : out[i] = "."

\* Adapted in one cycle: an entry whose summary is longer than the limit and
\* an entry whose summary is exactly as long as the limit.
C16_Witness ==
    /\ pc[LoopThread] = "acquire"
    /\ \E j, k \in 1 .. Len(new_articles[LoopThread].items) :
          LET a == new_articles[LoopThread].items[j]
              b == new_articles[LoopThread].items[k]
          IN  /\ Has(EntryOf(a).summary) /\ Len(EntryOf(a).summary[1]) > 200
              /\ Len(a.val.summary) = 203
              /\ Has(EntryOf(b).summary) /\ Len(EntryOf(b).summary[1]) = 200
              /\ Len(b.val.summary) = 203

(***************************************************************************)
(* C19: an article's timestamp is the entry's parsed-published time when   *)
(* present, else its parsed-updated time, else 0; and in every published   *)
(* list an article without a parsed time comes after every article that    *)
(* has one.                                                                *)
(***************************************************************************)
C19_TimestampFallbackSortsLast ==
    /\ \A k \in 1 .. Len(articles.items) :
          LET entry == EntryOf(articles.items[k])
              ts == articles.items[k].val.timestamp
          IN  IF Has(entry.published_parsed) THEN ts = Mktime(entry.published_parsed[1])
              ELSE IF Has(entry.updated_parsed) THEN ts = Mktime(entry.updated_parsed[1])
              ELSE ts = 0
    /\ \A j, k \in 1 .. Len(articles.items) :
          (/\ ~HasParsedTime(EntryOf(articles.items[j]))
           /\ HasParsedTime(EntryOf(articles.items[k]))) => k < j

=============================================================================
